---- MODULE Spec2Model ----
(* Model of the wu-mqtt-bridge `run` command: settings validation, the three *)
(* Weather Underground fetches, snapshot assembly, and the MQTT fan-out      *)
(* publish with Home Assistant discovery.                                    *)
EXTENDS Integers, Sequences, FiniteSets, TLC

VARIABLES
    env,                \* process environment / CLI flags: geocode, dry_run, mqtt_retain, mqtt_ha_discovery
    pc,                 \* position of the run command
    httpLog,            \* endpoints requested over HTTP, in order
    httpClosed,         \* number of WeatherClient.close() calls
    fetchOutcome,       \* per endpoint: "none" before its fetch, then "ok" or "failed"
    current,            \* result of fetch_current (None or a CurrentConditions record)
    forecast,           \* result of fetch_forecast (sequence of DayForecast)
    weather,            \* the WeatherData snapshot (has |-> FALSE until fetch_all returned)
    failed,             \* an exception reached one of run's except blocks
    summaryPrinted,     \* _print_summary ran
    publisherCreated,   \* MQTTPublisher(...) was constructed
    connectCalls,       \* number of publisher.connect() calls
    connectOk,          \* the broker connect succeeded
    publishWeatherCalls,\* number of publisher.publish_weather() calls
    disconnectCalls,    \* number of publisher.disconnect() calls
    published,          \* every client.publish(topic, msg, retain, qos) issued, in order
    timedOut,           \* some wait_for_publish(timeout=10) returned without an acknowledgment
    exitCode,           \* process exit code (-1 while running)
    arg,                \* argument of a decoder or mapper called on its own
    result              \* what that call returned; for publish_weather called on
                        \* its own, the publishes the last call issued

vars == << env, pc, httpLog, httpClosed, fetchOutcome, current, forecast, weather,
           failed, summaryPrinted, publisherCreated, connectCalls, connectOk,
           publishWeatherCalls, disconnectCalls, published, timedOut, exitCode,
           arg, result >>

-----------------------------------------------------------------------------
(* Bounds of the model *)

MaxHours == 2       \* longest validTimeLocal array of an hourly response
MaxDays == 2        \* longest dayOfWeek array of a daily-forecast response

-----------------------------------------------------------------------------
(* Python values: None, numbers (floats are counted in tenths) and strings *)

None == [t |-> "none", n |-> 0, s |-> ""]
PyInt(i) == [t |-> "int", n |-> i, s |-> ""]
PyFloat(tenths) == [t |-> "float", n |-> tenths, s |-> ""]
PyText(x) == [t |-> "str", n |-> 0, s |-> x]

\* dict.get(key) with the default None
Get(d, k) == IF k \in DOMAIN d THEN d[k] ELSE None

\* dict.get(key, []) for the array-valued keys
GetList(d, k) == IF k \in DOMAIN d THEN d[k] ELSE << >>

Min(a, b) == IF a < b THEN a ELSE b

Range(f) == { f[i] : i \in DOMAIN f }

\* s[:k] on a string held as a sequence of characters
Prefix(s, k) == SubSeq(s, 1, Min(k, Len(s)))

-----------------------------------------------------------------------------
(* Settings: config.py *)

\* float(part) raises ValueError unless the part is a number
Part(v) == [num |-> TRUE, val |-> v]
NotANumber == [num |-> FALSE, val |-> 0]

\* the latitude is checked against the longitude's range
validate_geocode_lat180(parts) ==
    /\ Len(parts) = 2
    /\ parts[1].num /\ parts[2].num
    /\ -180 <= parts[1].val /\ parts[1].val <= 180
    /\ -180 <= parts[2].val /\ parts[2].val <= 180

validate_geocode(parts) ==
    /\ Len(parts) = 2
    /\ parts[1].num /\ parts[2].num
    /\ -90 <= parts[1].val /\ parts[1].val <= 90
    /\ -180 <= parts[2].val /\ parts[2].val <= 180

\* Settings(**kwargs) succeeds: wu_geocode is required and validated
SettingsValid(e) == e.geocode.set /\ validate_geocode(e.geocode.parts)

Geocodes ==
    { [set |-> FALSE, parts |-> << >>] } \cup
    { [set |-> TRUE, parts |-> p] : p \in
        { << NotANumber >>, << Part(48) >>,
          << Part(48), Part(2) >>,
          << Part(48), NotANumber >>, << NotANumber, Part(2) >>,
          << Part(91), Part(2) >>, << Part(-91), Part(2) >>,
          << Part(48), Part(181) >>, << Part(48), Part(-181) >>,
          << Part(100), Part(100) >>,
          << Part(48), Part(2), Part(3) >> } }

Envs ==
    [ geocode : Geocodes, dry_run : BOOLEAN,
      mqtt_retain : BOOLEAN, mqtt_ha_discovery : BOOLEAN ]

mqtt_topic_prefix == "weather"
mqtt_ha_discovery_prefix == "homeassistant"

-----------------------------------------------------------------------------
(* Responses of the three endpoints: weather.py *)

\* What self._http.get + raise_for_status + resp.json() can do
FailKinds == { "status", "transport", "decode" }

Fail(k) == [kind |-> k, body |-> [ x \in {} |-> << >> ]]
Ok(b) == [kind |-> "ok", body |-> b]

Digit(k) == << "0", "1", "2", "3", "4", "5", "6", "7", "8", "9" >>[k + 1]

\* "2026-02-0dThh:00:00+0100" as a sequence of characters
TS(d, h) ==
    << "2", "0", "2", "6", "-", "0", "2", "-", "0", Digit(d), "T",
       Digit(h \div 10), Digit(h % 10), ":", "0", "0", ":", "0", "0",
       "+", "0", "1", "0", "0" >>

IsDigit(c) == c \in { Digit(k) : k \in 0..9 }
DigitVal(c) == CHOOSE k \in 0..9 : Digit(k) = c

\* int(chars): ValueError unless the text is a non-empty run of digits
IntParses(cs) == Len(cs) > 0 /\ \A i \in 1..Len(cs) : IsDigit(cs[i])
RECURSIVE IntOf(_)
IntOf(cs) ==
    IF Len(cs) = 0 THEN 0
    ELSE 10 * IntOf(SubSeq(cs, 1, Len(cs) - 1)) + DigitVal(cs[Len(cs)])

\* the last element is treated as out of bounds
_safe_idx_off_by_one(lst, idx) == IF idx + 1 < Len(lst) THEN lst[idx + 1] ELSE None

\* the str made of the characters cs
RECURSIVE Str(_)
Str(cs) == IF Len(cs) = 0 THEN "" ELSE cs[1] \o Str(Tail(cs))

\* lst[idx] if idx < len(lst) else None   (idx counted from 0)
_safe_idx(lst, idx) == IF idx < Len(lst) THEN lst[idx + 1] ELSE None

CurrentBodies ==
    { [ temperature |-> PyFloat(120), temperatureFeelsLike |-> PyFloat(100),
        relativeHumidity |-> PyInt(75), windSpeed |-> PyFloat(150),
        windDirectionCardinal |-> PyText("SSW"), uvIndex |-> PyInt(2),
        wxPhraseLong |-> PyText("Partly Cloudy"), iconCode |-> PyInt(30),
        pressureAltimeter |-> PyFloat(10130), visibility |-> PyFloat(100) ],
      [ temperature |-> None, relativeHumidity |-> PyInt(75), iconCode |-> PyInt(99) ] }

CurrentResponses == { Fail(k) : k \in FailKinds } \cup { Ok(b) : b \in CurrentBodies }

\* WeatherClient.fetch_current: None on any failure
fetch_current(resp) ==
    IF resp.kind # "ok" THEN [present |-> FALSE]
    ELSE [ present |-> TRUE,
           temperature |-> Get(resp.body, "temperature"),
           feels_like |-> Get(resp.body, "temperatureFeelsLike"),
           humidity |-> Get(resp.body, "relativeHumidity"),
           wind_speed |-> Get(resp.body, "windSpeed"),
           wind_direction_cardinal |-> Get(resp.body, "windDirectionCardinal"),
           uv_index |-> Get(resp.body, "uvIndex"),
           condition |-> Get(resp.body, "wxPhraseLong"),
           icon_code |-> Get(resp.body, "iconCode"),
           pressure |-> Get(resp.body, "pressureAltimeter"),
           visibility |-> Get(resp.body, "visibility") ]

\* One entry of a forecast array for day/daypart index i (counted from 0)
DayNames == << "Monday", "Tuesday", "Wednesday", "Thursday", "Friday", "Saturday", "Sunday" >>
DayName(i) == PyText(DayNames[(i % 7) + 1])
Icons == << 39, 27, 32, 48, 0, 47 >>
IconAt(i) == PyInt(Icons[(i % 6) + 1])

Arr(n, F(_)) == [ i \in 1..n |-> F(i - 1) ]

TempMaxAt(i) == PyFloat(140 + 10 * i)
TempMinAt(i) == PyFloat(60 + 10 * i)
NarrativeAt(i) == PyText("Partly cloudy.")
QpfAt(i) == PyFloat(15 * i)
DateAt(i) == TS(3 + i, 7)
PrecipAt(i) == PyInt(10 * (i + 1))
PhraseAt(i) == PyText(IF i % 2 = 0 THEN "Showers" ELSE "Mostly cloudy")
HumidityAt(i) == PyInt(70 + i)
WindAt(i) == PyFloat(200 - 10 * i)
WindDirAt(i) == PyText(IF i % 2 = 0 THEN "SSW" ELSE "S")
UvAt(i) == PyInt(i)

\* daypart[0] with arrays of length m
Daypart(m) ==
    [ precipChance |-> Arr(m, PrecipAt), wxPhraseLong |-> Arr(m, PhraseAt),
      iconCode |-> Arr(m, IconAt), relativeHumidity |-> Arr(m, HumidityAt),
      windSpeed |-> Arr(m, WindAt), windDirectionCardinal |-> Arr(m, WindDirAt),
      uvIndex |-> Arr(m, UvAt) ]

\* top-level arrays: dayOfWeek of length n, the others of length k
TopLevel(n, k) ==
    [ dayOfWeek |-> Arr(n, DayName), validTimeLocal |-> Arr(k, DateAt),
      calendarDayTemperatureMax |-> Arr(k, TempMaxAt),
      calendarDayTemperatureMin |-> Arr(k, TempMinAt),
      narrative |-> Arr(k, NarrativeAt), qpf |-> Arr(k, QpfAt) ]

WithDaypart(top, dp) == [ k \in DOMAIN top \cup { "daypart" } |->
                            IF k = "daypart" THEN dp ELSE top[k] ]

ForecastBodies ==
    { [ k \in {} |-> << >> ] } \cup
    { TopLevel(n, n) : n \in 1..MaxDays } \cup
    { WithDaypart(TopLevel(MaxDays, MaxDays), << >>) } \cup
    { WithDaypart(TopLevel(MaxDays, MaxDays - d), << Daypart(2 * MaxDays - d) >>) : d \in { 0, 1 } }

ForecastResponses == { Fail(k) : k \in FailKinds } \cup { Ok(b) : b \in ForecastBodies }

\* the daypart arrays are read as if they held one entry per day
DayIdx_per_day(i) == i

\* daypart index for day of forecast day i (counted from 0)
DayIdx(i) == i * 2

\* the night entry is read at the day's index
NightIdx_same_as_day(i) == i * 2

\* daypart index for night of forecast day i (counted from 0)
NightIdx(i) == i * 2 + 1

\* _parse_forecast(data)
_parse_forecast(data) ==
    LET days_of_week == GetList(data, "dayOfWeek")
        valid_times == GetList(data, "validTimeLocal")
        temp_max == GetList(data, "calendarDayTemperatureMax")
        temp_min == GetList(data, "calendarDayTemperatureMin")
        narratives == GetList(data, "narrative")
        qpf == GetList(data, "qpf")
        daypart == IF Len(GetList(data, "daypart")) > 0
                   THEN GetList(data, "daypart")[1] ELSE [ k \in {} |-> << >> ]
        dp_precip == GetList(daypart, "precipChance")
        dp_condition == GetList(daypart, "wxPhraseLong")
        dp_icon == GetList(daypart, "iconCode")
        dp_humidity == GetList(daypart, "relativeHumidity")
        dp_wind_speed == GetList(daypart, "windSpeed")
        dp_wind_dir == GetList(daypart, "windDirectionCardinal")
        dp_uv == GetList(daypart, "uvIndex")
        Day(i) ==
            LET day_idx == DayIdx(i)
                night_idx == NightIdx(i)
            IN [ day_of_week |-> days_of_week[i + 1],
                 date |-> IF i < Len(valid_times)
                          THEN PyText(Str(Prefix(valid_times[i + 1], 10))) ELSE PyText(""),
                 temp_max |-> IF i < Len(temp_max) THEN temp_max[i + 1] ELSE None,
                 temp_min |-> IF i < Len(temp_min) THEN temp_min[i + 1] ELSE None,
                 narrative |-> IF i < Len(narratives) THEN narratives[i + 1] ELSE PyText(""),
                 precip_chance_day |-> _safe_idx(dp_precip, day_idx),
                 precip_chance_night |-> _safe_idx(dp_precip, night_idx),
                 condition_day |-> _safe_idx(dp_condition, day_idx),
                 condition_night |-> _safe_idx(dp_condition, night_idx),
                 icon_code_day |-> _safe_idx(dp_icon, day_idx),
                 icon_code_night |-> _safe_idx(dp_icon, night_idx),
                 humidity_day |-> _safe_idx(dp_humidity, day_idx),
                 humidity_night |-> _safe_idx(dp_humidity, night_idx),
                 wind_speed_day |-> _safe_idx(dp_wind_speed, day_idx),
                 wind_speed_night |-> _safe_idx(dp_wind_speed, night_idx),
                 wind_direction_day |-> _safe_idx(dp_wind_dir, day_idx),
                 wind_direction_night |-> _safe_idx(dp_wind_dir, night_idx),
                 qpf |-> IF i < Len(qpf) THEN qpf[i + 1] ELSE None,
                 uv_index_day |-> _safe_idx(dp_uv, day_idx) ]
    IN [ i \in 1..Len(days_of_week) |-> Day(i - 1) ]

\* Hourly responses: validTimeLocal holds 0..MaxHours timestamps in
\* chronological order (repeats allowed) with the other arrays as long, one
\* response whose other arrays are one shorter, and one whose timestamp stops
\* after the date
HourStamps == << TS(3, 7), TS(3, 14), TS(4, 0) >>
HourTempAt(i) == PyFloat(130 + 10 * i)
HourQpfAt(i) == IF i % 2 = 0 THEN PyFloat(0) ELSE None

RECURSIVE SeqsUpTo(_, _)
SeqsUpTo(S, n) ==
    IF n = 0 THEN { << >> }
    ELSE LET shorter == SeqsUpTo(S, n - 1)
         IN shorter \cup { Append(q, x) : q \in { r \in shorter : Len(r) = n - 1 }, x \in S }

Chronological ==
    { q \in SeqsUpTo(1..Len(HourStamps), MaxHours) :
        \A i \in 1..Len(q) : \A j \in 1..Len(q) : i < j => q[i] <= q[j] }

HourlyBody(times, k) ==
    [ validTimeLocal |-> times, temperature |-> Arr(k, HourTempAt),
      wxPhraseLong |-> Arr(k, PhraseAt), iconCode |-> Arr(k, IconAt),
      qpf |-> Arr(k, HourQpfAt) ]

HourlyBodies ==
    { [ k \in {} |-> << >> ] } \cup
    { HourlyBody([ i \in 1..Len(q) |-> HourStamps[q[i]] ], Len(q)) : q \in Chronological } \cup
    { HourlyBody([ i \in 1..MaxHours |-> TS(3, 14) ], MaxHours - 1) } \cup
    { HourlyBody(<< Prefix(TS(3, 7), 10) >>, 1) }

HourlyResponses == { Fail(k) : k \in FailKinds } \cup { Ok(b) : b \in HourlyBodies }

\* the loop stops at the first entry of another date
RECURSIVE KeptFrom_break(_, _)
KeptFrom_break(valid_times, i) ==
    IF i >= Len(valid_times) THEN << >>
    ELSE IF Prefix(valid_times[i + 1], 10) # Prefix(valid_times[1], 10)
         THEN << >>
         ELSE << i >> \o KeptFrom_break(valid_times, i + 1)

\* The entries _parse_hourly keeps: indices (from 0) whose date equals the first one's
RECURSIVE KeptFrom(_, _)
KeptFrom(valid_times, i) ==
    IF i >= Len(valid_times) THEN << >>
    ELSE IF Prefix(valid_times[i + 1], 10) # Prefix(valid_times[1], 10)
         THEN KeptFrom(valid_times, i + 1)
         ELSE << i >> \o KeptFrom(valid_times, i + 1)

\* time_str[11:13]
HourChars(time_str) == SubSeq(time_str, 12, Min(13, Len(time_str)))

\* _parse_hourly(data): raised is TRUE when int(time_str[11:13]) raises
_parse_hourly(data) ==
    LET valid_times == GetList(data, "validTimeLocal")
        temperatures == GetList(data, "temperature")
        conditions == GetList(data, "wxPhraseLong")
        icon_codes == GetList(data, "iconCode")
        qpf_values == GetList(data, "qpf")
        kept == KeptFrom(valid_times, 0)
        Hour(i) == [ time_local |-> valid_times[i + 1],
                     hour |-> IntOf(HourChars(valid_times[i + 1])),
                     temperature |-> _safe_idx(temperatures, i),
                     condition |-> _safe_idx(conditions, i),
                     icon_code |-> _safe_idx(icon_codes, i),
                     qpf |-> _safe_idx(qpf_values, i) ]
    IN IF \E j \in 1..Len(kept) : ~IntParses(HourChars(valid_times[kept[j] + 1]))
       THEN [ raised |-> TRUE, hours |-> << >> ]
       ELSE [ raised |-> FALSE, hours |-> [ j \in 1..Len(kept) |-> Hour(kept[j]) ] ]

\* the hourly fetch gives nothing until current conditions have been fetched
fetch_hourly_needs_current(resp) ==
    IF ~current.present \/ resp.kind # "ok" \/ _parse_hourly(resp.body).raised THEN << >>
    ELSE _parse_hourly(resp.body).hours

\* WeatherClient.fetch_hourly: [] on any failure, _parse_hourly's included
fetch_hourly(resp) ==
    IF resp.kind # "ok" \/ _parse_hourly(resp.body).raised THEN << >>
    ELSE _parse_hourly(resp.body).hours

\* the raw object's wind_direction is filled from the wind speed
WeatherData_wind_speed_twice(cur, fc, raw_fc, hourly) ==
    [ has |-> TRUE,
      current |-> cur,
      forecast |-> fc,
      hourly_today |-> hourly,
      raw_current |->
          IF cur.present
          THEN [ present |-> TRUE,
                 temperature |-> cur.temperature, feels_like |-> cur.feels_like,
                 humidity |-> cur.humidity, wind_speed |-> cur.wind_speed,
                 wind_direction |-> cur.wind_speed,
                 uv_index |-> cur.uv_index, condition |-> cur.condition,
                 icon_code |-> cur.icon_code, pressure |-> cur.pressure,
                 visibility |-> cur.visibility ]
          ELSE [ present |-> FALSE ],
      raw_forecast |-> raw_fc ]

\* fetch_all, lines 173-195: the snapshot built from the three results
WeatherData(cur, fc, raw_fc, hourly) ==
    [ has |-> TRUE,
      current |-> cur,
      forecast |-> fc,
      hourly_today |-> hourly,
      raw_current |->
          IF cur.present
          THEN [ present |-> TRUE,
                 temperature |-> cur.temperature, feels_like |-> cur.feels_like,
                 humidity |-> cur.humidity, wind_speed |-> cur.wind_speed,
                 wind_direction |-> cur.wind_direction_cardinal,
                 uv_index |-> cur.uv_index, condition |-> cur.condition,
                 icon_code |-> cur.icon_code, pressure |-> cur.pressure,
                 visibility |-> cur.visibility ]
          ELSE [ present |-> FALSE ],
      raw_forecast |-> raw_fc ]

NoWeather == [ has |-> FALSE ]

-----------------------------------------------------------------------------
(* The publisher: mqtt.py *)

_WU_TO_HA_CONDITION ==
    << "tornado", "hurricane", "hurricane", "lightning-rainy", "lightning-rainy",
       "rainy", "rainy", "snowy", "snowy", "rainy",
       "rainy", "rainy", "rainy", "snowy", "snowy",
       "snowy", "snowy", "hail", "snowy", "fog",
       "fog", "fog", "fog", "windy", "windy",
       "exceptional", "cloudy", "partlycloudy", "partlycloudy", "partlycloudy",
       "partlycloudy", "clear-night", "sunny", "clear-night", "sunny",
       "rainy", "exceptional", "lightning-rainy", "lightning-rainy", "rainy",
       "pouring", "snowy", "snowy", "snowy", "partlycloudy",
       "rainy", "snowy", "lightning-rainy" >>

\* the table is read one entry too low
_wu_to_ha_condition_shifted(icon_code) ==
    IF icon_code.t = "int" /\ icon_code.n >= 1 /\ icon_code.n < Len(_WU_TO_HA_CONDITION)
    THEN _WU_TO_HA_CONDITION[icon_code.n]
    ELSE "exceptional"

\* _WU_TO_HA_CONDITION.get(icon_code, "exceptional")
_wu_to_ha_condition(icon_code) ==
    IF icon_code.t = "int" /\ icon_code.n >= 0 /\ icon_code.n < Len(_WU_TO_HA_CONDITION)
    THEN _WU_TO_HA_CONDITION[icon_code.n + 1]
    ELSE "exceptional"

\* str(value)
PyStr(v) ==
    CASE v.t = "none" -> "None"
      [] v.t = "str" -> v.s
      [] v.t = "int" -> ToString(v.n)
      [] v.t = "float" -> ToString(v.n \div 10) \o "." \o ToString(v.n % 10)

\* the hour is written without padding
Pad2_unpadded(h) == ToString(h)

\* f"{hour:02d}"
Pad2(h) == IF h < 10 THEN "0" \o ToString(h) ELSE ToString(h)

\* A topic is its "/"-separated levels; a message is its topic, payload and flags
RawMsg(text) == [ fmt |-> "raw", text |-> text, val |-> None ]
JsonMsg(obj) == [ fmt |-> "json", text |-> "", val |-> obj ]
Pub(topic, payload, retain) == [ topic |-> topic, payload |-> payload, retain |-> retain, qos |-> 1 ]

\* retain is hard-wired instead of taken from the publisher's setting
_publish_retain_fixed(topic, payload, raw, retain) ==
    Pub(topic, IF raw THEN RawMsg(PyStr(payload)) ELSE JsonMsg(payload), TRUE)

\* _publish(topic, payload, raw=...): the client.publish call it issues
_publish(topic, payload, raw, retain) ==
    Pub(topic, IF raw THEN RawMsg(PyStr(payload)) ELSE JsonMsg(payload), retain)

device ==
    [ identifiers |-> << "wu_mqtt_bridge" >>, name |-> "Weather Underground",
      model |-> "wu-mqtt-bridge", manufacturer |-> "wu-mqtt-bridge" ]

\* the nine fixed sensor descriptors ("" where the source has None; names and
\* units are written without their accents and degree sign)
Sensor(key, name, device_class, unit, icon) ==
    [ key |-> key, name |-> name, device_class |-> device_class, unit |-> unit, icon |-> icon ]

sensors ==
    << Sensor("temperature", "Temperature", "temperature", "C", ""),
       Sensor("feels_like", "Temperature ressentie", "temperature", "C", ""),
       Sensor("humidity", "Humidite", "humidity", "%", ""),
       Sensor("wind_speed", "Vent", "wind_speed", "km/h", ""),
       Sensor("wind_direction", "Direction du vent", "", "", "mdi:compass-outline"),
       Sensor("pressure", "Pression", "atmospheric_pressure", "hPa", ""),
       Sensor("visibility", "Visibilite", "distance", "km", ""),
       Sensor("uv_index", "Indice UV", "", "", "mdi:sun-wireless-outline"),
       Sensor("condition", "Condition", "", "", "mdi:weather-partly-cloudy") >>

\* the three descriptors of one hour
hourly_sensors(h) ==
    << [ key |-> "hourly_" \o h \o "_temperature", name |-> "Temperature " \o h \o "h",
         topic |-> << mqtt_topic_prefix, "hourly", h, "temperature" >>,
         device_class |-> "temperature", unit |-> "C", icon |-> "" ],
       [ key |-> "hourly_" \o h \o "_condition", name |-> "Condition " \o h \o "h",
         topic |-> << mqtt_topic_prefix, "hourly", h, "condition" >>,
         device_class |-> "", unit |-> "", icon |-> "mdi:weather-partly-cloudy" ],
       [ key |-> "hourly_" \o h \o "_precipitation", name |-> "Precipitations " \o h \o "h",
         topic |-> << mqtt_topic_prefix, "hourly", h, "precipitation" >>,
         device_class |-> "precipitation", unit |-> "mm", icon |-> "" ] >>

\* the discovery document of one descriptor: optional keys only when truthy
DiscoveryConfig(s, state_topic) ==
    LET keys == { "name", "unique_id", "object_id", "state_topic", "device" }
                \cup (IF s.device_class # "" THEN { "device_class" } ELSE {})
                \cup (IF s.unit # "" THEN { "unit_of_measurement", "state_class" } ELSE {})
                \cup (IF s.icon # "" THEN { "icon" } ELSE {})
    IN [ k \in keys |->
           CASE k = "name" -> s.name
             [] k = "unique_id" -> "wu_mqtt_bridge_" \o s.key
             [] k = "object_id" -> "wu_" \o s.key
             [] k = "state_topic" -> state_topic
             [] k = "device" -> device
             [] k = "device_class" -> s.device_class
             [] k = "unit_of_measurement" -> s.unit
             [] k = "state_class" -> "measurement"
             [] k = "icon" -> s.icon ]

DiscoveryTopic(key) == << mqtt_ha_discovery_prefix, "sensor", "wu_mqtt_bridge", key, "config" >>
old_topic == << mqtt_ha_discovery_prefix, "weather", "wu_mqtt_bridge", "config" >>

\* the nine fixed sensors are announced only when current conditions are present
_publish_ha_sensor_discovery_if_current(data) ==
    LET H == Len(data.hourly_today)
        current_docs ==
            IF data.current.present
            THEN [ i \in 1..Len(sensors) |->
                     Pub(DiscoveryTopic(sensors[i].key),
                         JsonMsg(DiscoveryConfig(sensors[i], << mqtt_topic_prefix, sensors[i].key >>)),
                         TRUE) ]
            ELSE << >>
        hourly_docs ==
            [ i \in 1..(3 * H) |->
                LET hour == data.hourly_today[((i - 1) \div 3) + 1]
                    s == hourly_sensors(Pad2(hour.hour))[((i - 1) % 3) + 1]
                IN Pub(DiscoveryTopic(s.key), JsonMsg(DiscoveryConfig(s, s.topic)), TRUE) ]
    IN current_docs \o hourly_docs \o << Pub(old_topic, RawMsg(""), TRUE) >>

\* _publish_ha_sensor_discovery(data): the publishes it issues, in order
_publish_ha_sensor_discovery(data) ==
    LET H == Len(data.hourly_today)
        current_docs ==
            [ i \in 1..Len(sensors) |->
                Pub(DiscoveryTopic(sensors[i].key),
                    JsonMsg(DiscoveryConfig(sensors[i], << mqtt_topic_prefix, sensors[i].key >>)),
                    TRUE) ]
        hourly_docs ==
            [ i \in 1..(3 * H) |->
                LET hour == data.hourly_today[((i - 1) \div 3) + 1]
                    s == hourly_sensors(Pad2(hour.hour))[((i - 1) % 3) + 1]
                IN Pub(DiscoveryTopic(s.key), JsonMsg(DiscoveryConfig(s, s.topic)), TRUE) ]
    IN current_docs \o hourly_docs \o << Pub(old_topic, RawMsg(""), TRUE) >>

\* the forecast condition is taken from the night's icon
_build_ha_state_night_icon(data) ==
    LET fc == [ i \in 1..Len(data.forecast) |->
                 LET day == data.forecast[i]
                 IN [ datetime |-> day.date,
                      temperature |-> day.temp_max,
                      templow |-> day.temp_min,
                      condition |-> _wu_to_ha_condition(day.icon_code_night),
                      precipitation_probability |-> day.precip_chance_day,
                      precipitation |-> day.qpf,
                      wind_speed |-> day.wind_speed_day,
                      wind_bearing |-> day.wind_direction_day,
                      humidity |-> day.humidity_day ] ]
    IN IF data.current.present
       THEN [ temperature |-> data.current.temperature,
              humidity |-> data.current.humidity,
              wind_speed |-> data.current.wind_speed,
              wind_bearing |-> data.current.wind_direction_cardinal,
              pressure |-> data.current.pressure,
              visibility |-> data.current.visibility,
              condition |-> _wu_to_ha_condition(data.current.icon_code),
              forecast |-> fc ]
       ELSE [ forecast |-> fc ]

\* _build_ha_state(data)
_build_ha_state(data) ==
    LET fc == [ i \in 1..Len(data.forecast) |->
                 LET day == data.forecast[i]
                 IN [ datetime |-> day.date,
                      temperature |-> day.temp_max,
                      templow |-> day.temp_min,
                      condition |-> _wu_to_ha_condition(day.icon_code_day),
                      precipitation_probability |-> day.precip_chance_day,
                      precipitation |-> day.qpf,
                      wind_speed |-> day.wind_speed_day,
                      wind_bearing |-> day.wind_direction_day,
                      humidity |-> day.humidity_day ] ]
    IN IF data.current.present
       THEN [ temperature |-> data.current.temperature,
              humidity |-> data.current.humidity,
              wind_speed |-> data.current.wind_speed,
              wind_bearing |-> data.current.wind_direction_cardinal,
              pressure |-> data.current.pressure,
              visibility |-> data.current.visibility,
              condition |-> _wu_to_ha_condition(data.current.icon_code),
              forecast |-> fc ]
       ELSE [ forecast |-> fc ]

\* the raw current topic is published whatever the snapshot holds
HasRawCurrent_always(data) == TRUE

\* if data.raw_current is not None
HasRawCurrent(data) == data.raw_current.present

\* the aggregate state is published first
DataOrder_state_first(scalars, raw, fc, hourly, ha) == ha \o scalars \o raw \o fc \o hourly

\* the order of the statements of publish_weather's data part
DataOrder(scalars, raw, fc, hourly, ha) == scalars \o raw \o fc \o hourly \o ha

\* publish_weather, lines 115-159: the data publishes it issues, in order
DataPublishes(data, retain) ==
    LET c == data.current
        H == Len(data.hourly_today)
        values ==
            IF c.present
            THEN << << "temperature", c.temperature >>, << "feels_like", c.feels_like >>,
                    << "humidity", c.humidity >>, << "wind_speed", c.wind_speed >>,
                    << "wind_direction", c.wind_direction_cardinal >>,
                    << "pressure", c.pressure >>, << "visibility", c.visibility >>,
                    << "uv_index", c.uv_index >>,
                    << "condition", PyText(_wu_to_ha_condition(c.icon_code)) >> >>
            ELSE << >>
        IsSet(kv) == kv[2] # None
        present == SelectSeq(values, IsSet)
        scalars == [ i \in 1..Len(present) |->
                       _publish(<< mqtt_topic_prefix, present[i][1] >>, present[i][2], TRUE, retain) ]
        raw == IF HasRawCurrent(data)
               THEN << _publish(<< mqtt_topic_prefix, "current" >>, data.raw_current, FALSE, retain) >>
               ELSE << >>
        fc == << _publish(<< mqtt_topic_prefix, "forecast" >>, data.forecast, FALSE, retain) >>
        hourly ==
            [ i \in 1..(3 * H) |->
                LET hour == data.hourly_today[((i - 1) \div 3) + 1]
                    prefix == << mqtt_topic_prefix, "hourly", Pad2(hour.hour) >>
                    m == (i - 1) % 3
                IN CASE m = 0 -> _publish(Append(prefix, "temperature"), hour.temperature, TRUE, retain)
                     [] m = 1 -> _publish(Append(prefix, "condition"),
                                          PyText(_wu_to_ha_condition(hour.icon_code)), TRUE, retain)
                     [] m = 2 -> _publish(Append(prefix, "precipitation"),
                                          IF hour.qpf # None THEN hour.qpf ELSE PyFloat(0),
                                          TRUE, retain) ]
        ha == << _publish(<< mqtt_topic_prefix, "ha_state" >>, _build_ha_state(data), FALSE, retain) >>
    IN DataOrder(scalars, raw, fc, hourly, ha)

\* the discovery documents are sent by the publisher's first call only
publish_weather_discovery_once(data, ha_discovery, retain) ==
    (IF ha_discovery /\ publishWeatherCalls = 0
     THEN _publish_ha_sensor_discovery(data) ELSE << >>)
        \o DataPublishes(data, retain)

\* the discovery documents are sent after the data topics
publish_weather_data_first(data, ha_discovery, retain) ==
    DataPublishes(data, retain)
        \o (IF ha_discovery THEN _publish_ha_sensor_discovery(data) ELSE << >>)

\* the discovery toggle is ignored
publish_weather_always_discovery(data, ha_discovery, retain) ==
    _publish_ha_sensor_discovery(data) \o DataPublishes(data, retain)

\* publish_weather(data): every publish of one call, in order
publish_weather(data, ha_discovery, retain) ==
    (IF ha_discovery THEN _publish_ha_sensor_discovery(data) ELSE << >>)
        \o DataPublishes(data, retain)

-----------------------------------------------------------------------------
(* The run command: __main__.py *)

\* only a bad status of the forecast fetch propagates
FetchRaises_status_only(endpoint, resp) == endpoint = "forecast" /\ resp.kind = "status"

\* no fetch catches its failure
FetchRaises_every_fetch(endpoint, resp) == resp.kind # "ok"

\* Which fetch lets a failure propagate: fetch_forecast has no try/except,
\* fetch_current and fetch_hourly catch every exception
FetchRaises(endpoint, resp) == endpoint = "forecast" /\ resp.kind # "ok"

\* the dry-run flag is not consulted
SkipsPublish_never(e) == FALSE

\* if settings.dry_run: print the summary and return
SkipsPublish(e) == e.dry_run

\* sys.exit(1) in an except block, otherwise the command returns normally
RunExit(hasFailed) == IF hasFailed THEN 1 ELSE 0

\* result.wait_for_publish(timeout=10): raises when the publish was rejected,
\* returns (without a value) both on acknowledgment and when the wait times out
PublishOutcomes == { "ack", "timeout", "error" }
WaitRaises(outcome) == outcome = "error"

\* a failed connect is swallowed
ConnectRaises_never(ok) == FALSE

\* self._client.connect(...) raises when the broker cannot be reached
ConnectRaises(ok) == ~ok

\* disconnect is skipped when connect raised
AfterConnect_no_finally(raised) == IF raised THEN "exited" ELSE "publish_weather"

\* where run goes after publisher.connect(): on to publish_weather, or, when
\* it raised, through the except block to the finally clause
AfterConnect(raised) == IF raised THEN "disconnect" ELSE "publish_weather"

\* fetch_hourly took one of its except branches
HourlyFailed(resp) == resp.kind # "ok" \/ _parse_hourly(resp.body).raised

Running == -1

Init ==
    /\ env \in Envs
    /\ pc = "settings"
    /\ httpLog = << >>
    /\ httpClosed = 0
    /\ fetchOutcome = [ current |-> "none", forecast |-> "none", hourly |-> "none" ]
    /\ current = [ present |-> FALSE ]
    /\ forecast = [ days |-> << >>, raw |-> [ k \in {} |-> << >> ] ]
    /\ weather = NoWeather
    /\ failed = FALSE
    /\ summaryPrinted = FALSE
    /\ publisherCreated = FALSE
    /\ connectCalls = 0
    /\ connectOk = FALSE
    /\ publishWeatherCalls = 0
    /\ disconnectCalls = 0
    /\ published = << >>
    /\ timedOut = FALSE
    /\ exitCode = Running
    /\ arg = None
    /\ result = None

\* run, lines 52-59: Settings(**kwargs) or "Configuration error" and exit 1
LoadSettings ==
    /\ pc = "settings"
    /\ IF SettingsValid(env)
       THEN pc' = "fetch_current" /\ exitCode' = exitCode
       ELSE pc' = "exited" /\ exitCode' = 1
    /\ UNCHANGED << arg, result, env, httpLog, httpClosed, fetchOutcome, current, forecast, weather,
                    failed, summaryPrinted, publisherCreated, connectCalls, connectOk,
                    publishWeatherCalls, disconnectCalls, published, timedOut >>

\* fetch_all, line 169
FetchCurrent ==
    /\ pc = "fetch_current"
    /\ \E resp \in CurrentResponses :
        /\ httpLog' = Append(httpLog, "current")
        /\ fetchOutcome' = [ fetchOutcome EXCEPT !.current = IF resp.kind = "ok" THEN "ok" ELSE "failed" ]
        /\ IF FetchRaises("current", resp)
           THEN failed' = TRUE /\ pc' = "close_client" /\ current' = current
           ELSE failed' = failed /\ pc' = "fetch_forecast" /\ current' = fetch_current(resp)
    /\ UNCHANGED << arg, result, env, httpClosed, forecast, weather, summaryPrinted, publisherCreated,
                    connectCalls, connectOk, publishWeatherCalls, disconnectCalls,
                    published, timedOut, exitCode >>

\* fetch_all, line 170
FetchForecast ==
    /\ pc = "fetch_forecast"
    /\ \E resp \in ForecastResponses :
        /\ httpLog' = Append(httpLog, "forecast")
        /\ fetchOutcome' = [ fetchOutcome EXCEPT !.forecast = IF resp.kind = "ok" THEN "ok" ELSE "failed" ]
        /\ IF FetchRaises("forecast", resp)
           THEN failed' = TRUE /\ pc' = "close_client" /\ forecast' = forecast
           ELSE /\ failed' = failed
                /\ pc' = "fetch_hourly"
                /\ forecast' = [ days |-> _parse_forecast(resp.body), raw |-> resp.body ]
    /\ UNCHANGED << arg, result, env, httpClosed, current, weather, summaryPrinted, publisherCreated,
                    connectCalls, connectOk, publishWeatherCalls, disconnectCalls,
                    published, timedOut, exitCode >>

\* fetch_all, lines 171-195: the hourly fetch, then the snapshot is assembled
FetchHourly ==
    /\ pc = "fetch_hourly"
    /\ \E resp \in HourlyResponses :
        /\ httpLog' = Append(httpLog, "hourly")
        /\ fetchOutcome' = [ fetchOutcome EXCEPT !.hourly = IF HourlyFailed(resp) THEN "failed" ELSE "ok" ]
        /\ IF FetchRaises("hourly", resp)
           THEN failed' = TRUE /\ weather' = weather
           ELSE /\ failed' = failed
                /\ weather' = WeatherData(current, forecast.days, forecast.raw, fetch_hourly(resp))
    /\ pc' = "close_client"
    /\ UNCHANGED << arg, result, env, httpClosed, current, forecast, summaryPrinted, publisherCreated,
                    connectCalls, connectOk, publishWeatherCalls, disconnectCalls,
                    published, timedOut, exitCode >>

\* run, lines 80-84: finally client.close(); a failed fetch_all exits 1
CloseClient ==
    /\ pc = "close_client"
    /\ httpClosed' = httpClosed + 1
    /\ IF failed
       THEN pc' = "exited" /\ exitCode' = RunExit(failed)
       ELSE /\ exitCode' = exitCode
            /\ pc' = IF SkipsPublish(env) THEN "dry_run" ELSE "create_publisher"
    /\ UNCHANGED << arg, result, env, httpLog, fetchOutcome, current, forecast, weather, failed,
                    summaryPrinted, publisherCreated, connectCalls, connectOk,
                    publishWeatherCalls, disconnectCalls, published, timedOut >>

\* run, lines 92-95
DryRun ==
    /\ pc = "dry_run"
    /\ summaryPrinted' = TRUE
    /\ pc' = "exited"
    /\ exitCode' = RunExit(failed)
    /\ UNCHANGED << arg, result, env, httpLog, httpClosed, fetchOutcome, current, forecast, weather,
                    failed, publisherCreated, connectCalls, connectOk,
                    publishWeatherCalls, disconnectCalls, published, timedOut >>

\* run, lines 98-108
CreatePublisher ==
    /\ pc = "create_publisher"
    /\ publisherCreated' = TRUE
    /\ pc' = "connect"
    /\ UNCHANGED << arg, result, env, httpLog, httpClosed, fetchOutcome, current, forecast, weather,
                    failed, summaryPrinted, connectCalls, connectOk,
                    publishWeatherCalls, disconnectCalls, published, timedOut, exitCode >>

\* run, line 110: publisher.connect() returns or raises
Connect ==
    /\ pc = "connect"
    /\ connectCalls' = connectCalls + 1
    /\ \E ok \in BOOLEAN :
        /\ connectOk' = ok
        /\ failed' = ConnectRaises(ok)
        /\ pc' = AfterConnect(ConnectRaises(ok))
    /\ UNCHANGED << arg, result, env, httpLog, httpClosed, fetchOutcome, current, forecast, weather,
                    summaryPrinted, publisherCreated, publishWeatherCalls,
                    disconnectCalls, published, timedOut, exitCode >>

\* run, line 111: publisher.publish_weather(weather) is entered
CallPublishWeather ==
    /\ pc = "publish_weather"
    /\ publishWeatherCalls' = publishWeatherCalls + 1
    /\ pc' = "publishing"
    /\ UNCHANGED << arg, result, env, httpLog, httpClosed, fetchOutcome, current, forecast, weather,
                    failed, summaryPrinted, publisherCreated, connectCalls, connectOk,
                    disconnectCalls, published, timedOut, exitCode >>

\* the next client.publish of publish_weather and its wait_for_publish
Publish ==
    /\ pc = "publishing"
    /\ LET plan == publish_weather(weather, env.mqtt_ha_discovery, env.mqtt_retain)
           k == Len(published) + 1
       IN /\ published' = Append(published, plan[k])
          /\ \E outcome \in PublishOutcomes :
              IF WaitRaises(outcome)
              THEN failed' = TRUE /\ timedOut' = timedOut /\ pc' = "disconnect"
              ELSE /\ failed' = failed
                   /\ timedOut' = (timedOut \/ outcome = "timeout")
                   /\ pc' = IF k = Len(plan) THEN "disconnect" ELSE "publishing"
    /\ UNCHANGED << arg, result, env, httpLog, httpClosed, fetchOutcome, current, forecast, weather,
                    summaryPrinted, publisherCreated, connectCalls, connectOk,
                    publishWeatherCalls, disconnectCalls, exitCode >>

\* run, lines 112-118: finally publisher.disconnect(); exit 1 after an exception
Disconnect ==
    /\ pc = "disconnect"
    /\ disconnectCalls' = disconnectCalls + 1
    /\ pc' = "exited"
    /\ exitCode' = RunExit(failed)
    /\ UNCHANGED << arg, result, env, httpLog, httpClosed, fetchOutcome, current, forecast, weather,
                    failed, summaryPrinted, publisherCreated, connectCalls, connectOk,
                    publishWeatherCalls, published, timedOut >>

Next ==
    \/ LoadSettings
    \/ FetchCurrent
    \/ FetchForecast
    \/ FetchHourly
    \/ CloseClient
    \/ DryRun
    \/ CreatePublisher
    \/ Connect
    \/ CallPublishWeather
    \/ Publish
    \/ Disconnect

Spec == Init /\ [][Next]_vars

-----------------------------------------------------------------------------
(* The decoders and the condition mapper called on their own *)

MaxTimes == 3       \* longest validTimeLocal array handed to _parse_hourly
MaxCode == 49       \* largest icon code handed to _wu_to_ha_condition
NegCodes == 2       \* how many codes below 0 are handed to _wu_to_ha_condition

\* daypart[0] whose iconCode array has its own length
DaypartMixed(m, mi) == [ Daypart(m) EXCEPT !.iconCode = Arr(mi, IconAt) ]

ForecastInputs ==
    { [ k \in {} |-> << >> ] } \cup
    { [ dayOfWeek |-> Arr(n, DayName) ] : n \in 0..MaxDays } \cup
    { TopLevel(n, k) : n \in 0..MaxDays, k \in 0..MaxDays } \cup
    { WithDaypart(TopLevel(n, k), << >>) : n \in 0..MaxDays, k \in 0..MaxDays } \cup
    { WithDaypart(TopLevel(n, k), << Daypart(m) >>) :
        n \in 0..MaxDays, k \in 0..MaxDays, m \in 0..(2 * MaxDays) } \cup
    { WithDaypart(TopLevel(n, n), << DaypartMixed(m, mi) >>) :
        n \in 0..MaxDays, m \in 0..(2 * MaxDays), mi \in 0..(2 * MaxDays) }

HourlyInputs ==
    { [ k \in {} |-> << >> ] } \cup
    { HourlyBody(ts, Len(ts)) : ts \in SeqsUpTo(Range(HourStamps), MaxTimes) } \cup
    { HourlyBody(ts, Len(ts) - 1) : ts \in SeqsUpTo(Range(HourStamps), MaxTimes) \ { << >> } } \cup
    { [ validTimeLocal |-> ts ] : ts \in SeqsUpTo(Range(HourStamps), MaxTimes) }

IconInputs == { None } \cup { PyInt(c) : c \in (0 - NegCodes)..MaxCode }

Idle ==
    /\ env = [ geocode |-> [ set |-> TRUE, parts |-> << Part(48), Part(2) >> ],
               dry_run |-> FALSE, mqtt_retain |-> TRUE, mqtt_ha_discovery |-> TRUE ]
    /\ httpLog = << >>
    /\ httpClosed = 0
    /\ fetchOutcome = [ current |-> "none", forecast |-> "none", hourly |-> "none" ]
    /\ current = [ present |-> FALSE ]
    /\ forecast = [ days |-> << >>, raw |-> [ k \in {} |-> << >> ] ]
    /\ weather = NoWeather
    /\ failed = FALSE
    /\ summaryPrinted = FALSE
    /\ publisherCreated = FALSE
    /\ connectCalls = 0
    /\ connectOk = FALSE
    /\ publishWeatherCalls = 0
    /\ disconnectCalls = 0
    /\ published = << >>
    /\ timedOut = FALSE
    /\ exitCode = Running

InitDecode ==
    /\ Idle
    /\ result = None
    /\ \/ pc = "_parse_forecast" /\ arg \in ForecastInputs
       \/ pc = "_parse_hourly" /\ arg \in HourlyInputs
       \/ pc = "_wu_to_ha_condition" /\ arg \in IconInputs

Returns(fn, value) ==
    /\ pc = fn
    /\ result' = value
    /\ pc' = "returned " \o fn
    /\ UNCHANGED << arg, env, httpLog, httpClosed, fetchOutcome, current, forecast, weather,
                    failed, summaryPrinted, publisherCreated, connectCalls, connectOk,
                    publishWeatherCalls, disconnectCalls, published, timedOut, exitCode >>

ParseForecast == Returns("_parse_forecast", _parse_forecast(arg))
ParseHourly == Returns("_parse_hourly", _parse_hourly(arg))
MapCondition == Returns("_wu_to_ha_condition", _wu_to_ha_condition(arg))

NextDecode ==
    \/ ParseForecast
    \/ ParseHourly
    \/ MapCondition

SpecDecode == InitDecode /\ [][NextDecode]_vars

-----------------------------------------------------------------------------
(* publish_weather called repeatedly on one connected publisher *)

MaxCalls == 2       \* calls of publish_weather on the same publisher

\* the snapshots fetch_all can build
Snapshots ==
    { WeatherData(fetch_current(c), _parse_forecast(f), f, fetch_hourly(h)) :
        c \in { Fail("status") } \cup { Ok(b) : b \in CurrentBodies },
        f \in ForecastBodies,
        h \in { Fail("status") } \cup { Ok(b) : b \in HourlyBodies } }

InitRepublish ==
    /\ env \in { e \in Envs : SettingsValid(e) /\ ~e.dry_run }
    /\ weather \in Snapshots
    /\ pc = "publish_weather"
    /\ httpLog = << "current", "forecast", "hourly" >>
    /\ httpClosed = 1
    /\ fetchOutcome = [ current |-> "none", forecast |-> "ok", hourly |-> "none" ]
    /\ current = weather.current
    /\ forecast = [ days |-> weather.forecast, raw |-> weather.raw_forecast ]
    /\ failed = FALSE
    /\ summaryPrinted = FALSE
    /\ publisherCreated = TRUE
    /\ connectCalls = 1
    /\ connectOk = TRUE
    /\ publishWeatherCalls = 0
    /\ disconnectCalls = 0
    /\ published = << >>
    /\ timedOut = FALSE
    /\ exitCode = Running
    /\ arg = None
    /\ result = << >>

\* one whole call of publish_weather(data), every publish acknowledged
PublishWeather ==
    /\ pc = "publish_weather"
    /\ publishWeatherCalls < MaxCalls
    /\ LET issued == publish_weather(weather, env.mqtt_ha_discovery, env.mqtt_retain)
       IN /\ published' = published \o issued
          /\ result' = issued
    /\ publishWeatherCalls' = publishWeatherCalls + 1
    /\ UNCHANGED << arg, env, pc, httpLog, httpClosed, fetchOutcome, current, forecast, weather,
                    failed, summaryPrinted, publisherCreated, connectCalls, connectOk,
                    disconnectCalls, timedOut, exitCode >>

NextRepublish == PublishWeather

SpecRepublish == InitRepublish /\ [][NextRepublish]_vars

\* The broker's retained message of each topic: a publish without the retain
\* flag leaves it as it is, a retained publish replaces it, and a retained
\* publish with an empty payload removes it
RetainedAt(log) == { i \in 1..Len(log) : log[i].retain }

LastRetained(log, topic) ==
    log[CHOOSE i \in RetainedAt(log) :
            /\ log[i].topic = topic
            /\ \A j \in RetainedAt(log) : log[j].topic = topic => j <= i]

Retained(log) ==
    LET topics == { log[i].topic : i \in RetainedAt(log) }
        Cleared(p) == p.fmt = "raw" /\ p.text = ""
    IN [ t \in { u \in topics : ~Cleared(LastRetained(log, u).payload) } |->
           LastRetained(log, t).payload ]

RECURSIVE Repeat(_, _)
Repeat(q, n) == IF n = 0 THEN << >> ELSE q \o Repeat(q, n - 1)

-----------------------------------------------------------------------------
(* fetch_all with its three fetches in any order *)

\* fetch_all as the source runs it: current, forecast, hourly, then the snapshot
fetch_all(rc, rf, rh) ==
    IF FetchRaises("current", rc) \/ FetchRaises("forecast", rf) \/ FetchRaises("hourly", rh)
    THEN [ raised |-> TRUE, data |-> NoWeather ]
    ELSE [ raised |-> FALSE,
           data |-> WeatherData(fetch_current(rc), _parse_forecast(rf.body), rf.body,
                                fetch_hourly(rh)) ]

\* the responses the three endpoints give during one fetch_all
ResponseSets ==
    [ current : CurrentResponses, forecast : ForecastResponses, hourly : HourlyResponses ]

InitAssemble ==
    /\ Idle
    /\ pc = "fetching"
    /\ arg \in ResponseSets
    /\ result = << >>

\* a fetch that has not been made yet is made; one that raises fails fetch_all
Fetching(endpoint) ==
    /\ pc = "fetching"
    /\ fetchOutcome[endpoint] = "none"
    /\ httpLog' = Append(httpLog, endpoint)
    /\ failed' = (failed \/ FetchRaises(endpoint, arg[endpoint]))

AnyFetchCurrent ==
    /\ Fetching("current")
    /\ fetchOutcome' = [ fetchOutcome EXCEPT
                           !.current = IF arg.current.kind = "ok" THEN "ok" ELSE "failed" ]
    /\ current' = fetch_current(arg.current)
    /\ UNCHANGED << arg, result, env, pc, httpClosed, forecast, weather, summaryPrinted,
                    publisherCreated, connectCalls, connectOk, publishWeatherCalls,
                    disconnectCalls, published, timedOut, exitCode >>

AnyFetchForecast ==
    /\ Fetching("forecast")
    /\ fetchOutcome' = [ fetchOutcome EXCEPT
                           !.forecast = IF arg.forecast.kind = "ok" THEN "ok" ELSE "failed" ]
    /\ forecast' = IF FetchRaises("forecast", arg.forecast) THEN forecast
                   ELSE [ days |-> _parse_forecast(arg.forecast.body),
                          raw |-> arg.forecast.body ]
    /\ UNCHANGED << arg, result, env, pc, httpClosed, current, weather, summaryPrinted,
                    publisherCreated, connectCalls, connectOk, publishWeatherCalls,
                    disconnectCalls, published, timedOut, exitCode >>

AnyFetchHourly ==
    /\ Fetching("hourly")
    /\ fetchOutcome' = [ fetchOutcome EXCEPT
                           !.hourly = IF HourlyFailed(arg.hourly) THEN "failed" ELSE "ok" ]
    /\ result' = fetch_hourly(arg.hourly)
    /\ UNCHANGED << arg, env, pc, httpClosed, current, forecast, weather, summaryPrinted,
                    publisherCreated, connectCalls, connectOk, publishWeatherCalls,
                    disconnectCalls, published, timedOut, exitCode >>

\* fetch_all ends: with the failure of a fetch as soon as there is one,
\* with the snapshot once the three fetches are made
Assemble ==
    /\ pc = "fetching"
    /\ failed \/ \A e \in DOMAIN fetchOutcome : fetchOutcome[e] # "none"
    /\ pc' = IF failed THEN "raised" ELSE "returned"
    /\ weather' = IF failed THEN weather
                  ELSE WeatherData(current, forecast.days, forecast.raw, result)
    /\ UNCHANGED << arg, result, env, httpLog, httpClosed, fetchOutcome, current, forecast,
                    failed, summaryPrinted, publisherCreated, connectCalls, connectOk,
                    publishWeatherCalls, disconnectCalls, published, timedOut, exitCode >>

NextAssemble ==
    \/ AnyFetchCurrent
    \/ AnyFetchForecast
    \/ AnyFetchHourly
    \/ Assemble

SpecAssemble == InitAssemble /\ [][NextAssemble]_vars

-----------------------------------------------------------------------------
(* Properties *)

Exited == pc = "exited"
Topics == { published[i].topic : i \in 1..Len(published) }
IsDiscovery(topic) == topic[1] = mqtt_ha_discovery_prefix
IsData(topic) == topic[1] = mqtt_topic_prefix
SensorKeys == { sensors[i].key : i \in 1..Len(sensors) }
IsSensorDoc(topic) == IsDiscovery(topic) /\ Len(topic) = 5 /\ topic[2] = "sensor"
IsHourlyDoc(topic) == IsSensorDoc(topic) /\ topic[4] \notin SensorKeys
NoMqtt ==
    /\ ~publisherCreated
    /\ connectCalls = 0
    /\ publishWeatherCalls = 0
    /\ disconnectCalls = 0
    /\ published = << >>
\* publish_weather returned normally
PublishCompleted == publishWeatherCalls = 1 /\ pc \in { "disconnect", "exited" } /\ ~failed

\* C1: once the daily-forecast fetch has failed, the run only closes the HTTP
\* client and exits with a non-zero code; no publisher is created, no connect
\* and no publish is ever made, whatever the current-conditions fetch gave.
C1_ForecastFailureAborts ==
    fetchOutcome.forecast = "failed" =>
        /\ NoMqtt
        /\ ~weather.has
        /\ pc \in { "close_client", "exited" }
        /\ (Exited => exitCode # 0)

C1_Witness ==
    /\ Exited
    /\ fetchOutcome.forecast = "failed"
    /\ fetchOutcome.current = "ok"
    /\ httpClosed = 1

\* C2: a failed current-conditions or hourly fetch never aborts the run: the
\* current conditions are then absent, the hourly sequence empty, and when the
\* daily-forecast fetch succeeds a snapshot is returned and a non-dry run goes
\* on to connect and call publish_weather.
C2_SoftFetchFailures ==
    /\ (fetchOutcome.current = "failed" /\ fetchOutcome.forecast = "none") =>
            (pc = "fetch_forecast" /\ ~failed /\ ~current.present)
    /\ (fetchOutcome.forecast = "ok" /\ pc # "fetch_hourly") =>
            /\ weather.has
            /\ weather.forecast = forecast.days
            /\ (fetchOutcome.current = "failed" => ~weather.current.present)
            /\ (fetchOutcome.hourly = "failed" => weather.hourly_today = << >>)
            /\ (connectCalls = 0 => ~failed /\ ~Exited)
               \/ env.dry_run
            /\ (connectOk /\ pc # "publish_weather" => publishWeatherCalls = 1)
    /\ (fetchOutcome.forecast = "ok" /\ env.dry_run /\ Exited) => exitCode = 0

C2_Witness ==
    /\ pc = "publishing"
    /\ fetchOutcome.current = "failed"
    /\ fetchOutcome.forecast = "ok"
    /\ fetchOutcome.hourly = "failed"
    /\ Len(published) > 0

\* C3: when the acknowledgment of a publish does not arrive within the bounded
\* wait the run fails: nothing more is published and the exit code is non-zero.
C3_TimeoutIsFatal ==
    timedOut =>
        /\ failed
        /\ pc \in { "disconnect", "exited" }
        /\ (Exited => exitCode # 0)

\* C4: when the broker connect fails the run exits non-zero, publish_weather is
\* never called, nothing is published, and connect was attempted exactly once.
C4_ConnectFailureAborts ==
    /\ connectCalls <= 1
    /\ (connectCalls > 0 /\ ~connectOk) =>
            /\ connectCalls = 1
            /\ publishWeatherCalls = 0
            /\ published = << >>
            /\ pc \in { "disconnect", "exited" }
            /\ (Exited => exitCode # 0)

C4_Witness == Exited /\ connectCalls = 1 /\ ~connectOk /\ disconnectCalls = 1

\* C5: with discovery enabled, every discovery document (9 + 3 per hour, and
\* the legacy cleanup) has been published before the first data topic, and the
\* cleanup of the legacy weather discovery topic comes after every hourly
\* discovery document.
C5_DiscoveryFirst ==
    env.mqtt_ha_discovery =>
        /\ \A i \in 1..Len(published) :
               IsData(published[i].topic) =>
                   \A j \in (i + 1)..Len(published) : ~IsDiscovery(published[j].topic)
        /\ \A i \in 1..Len(published) :
               published[i].topic = old_topic =>
                   /\ \A j \in (i + 1)..Len(published) : ~IsHourlyDoc(published[j].topic)
                   /\ Cardinality({ j \in 1..(i - 1) : IsHourlyDoc(published[j].topic) })
                          = 3 * Len(weather.hourly_today)
        /\ (Len(published) > 0 /\ IsData(published[Len(published)].topic)) =>
               /\ old_topic \in Topics
               /\ Cardinality({ j \in 1..Len(published) : IsSensorDoc(published[j].topic) })
                      = Len(sensors) + 3 * Len(weather.hourly_today)

C5_Witness ==
    /\ env.mqtt_ha_discovery
    /\ Exited /\ exitCode = 0
    /\ publishWeatherCalls = 1
    /\ Len(weather.hourly_today) >= 1
    /\ << mqtt_topic_prefix, "ha_state" >> \in Topics

DataTopicsOf(pubs) == { pubs[i].topic : i \in { j \in 1..Len(pubs) : IsData(pubs[j].topic) } }

\* C6: with discovery disabled no topic under the discovery prefix is published
\* (no sensor discovery document, no legacy cleanup), and a completed
\* publish_weather has published the same data topics as with discovery enabled.
C6_DiscoveryDisabled ==
    ~env.mqtt_ha_discovery =>
        /\ \A i \in 1..Len(published) :
               ~IsDiscovery(published[i].topic) /\ published[i].topic # old_topic
        /\ PublishCompleted =>
               /\ DataTopicsOf(published)
                      = DataTopicsOf(publish_weather(weather, TRUE, env.mqtt_retain))
               /\ Len(published) = Len(DataPublishes(weather, env.mqtt_retain))

C6_Witness ==
    /\ ~env.mqtt_ha_discovery
    /\ Exited /\ exitCode = 0
    /\ publishWeatherCalls = 1
    /\ Len(weather.hourly_today) >= 1
    /\ weather.current.present

MetricTopics == { << mqtt_topic_prefix, k >> : k \in SensorKeys }

\* C7: when the snapshot's current conditions are absent, {prefix}/current and
\* the per-metric scalar topics are never published, and a completed
\* publish_weather has published {prefix}/forecast and {prefix}/ha_state.
C7_AbsentCurrent ==
    (weather.has /\ ~weather.current.present) =>
        /\ << mqtt_topic_prefix, "current" >> \notin Topics
        /\ Topics \cap MetricTopics = {}
        /\ PublishCompleted =>
               /\ << mqtt_topic_prefix, "forecast" >> \in Topics
               /\ << mqtt_topic_prefix, "ha_state" >> \in Topics

C7_Witness ==
    /\ weather.has /\ ~weather.current.present
    /\ Exited /\ exitCode = 0
    /\ publishWeatherCalls = 1
    /\ << mqtt_topic_prefix, "ha_state" >> \in Topics

\* C8: in dry-run mode no publisher is created, connected or used, and when the
\* daily-forecast fetch succeeded the run exits zero after printing the summary.
C8_DryRun ==
    env.dry_run =>
        /\ NoMqtt
        /\ (fetchOutcome.forecast = "ok" /\ Exited) => (exitCode = 0 /\ summaryPrinted)

C8_Witness == env.dry_run /\ Exited /\ summaryPrinted /\ exitCode = 0 /\ weather.has

\* missing, malformed, or latitude/longitude out of range
GeocodeBad(g) ==
    \/ ~g.set
    \/ Len(g.parts) # 2
    \/ \E i \in 1..Len(g.parts) : ~g.parts[i].num
    \/ g.parts[1].val < -90 \/ g.parts[1].val > 90
    \/ g.parts[2].val < -180 \/ g.parts[2].val > 180

\* C9: with a missing, malformed or out-of-range geocode the run exits non-zero
\* before any HTTP fetch and before any MQTT connect or publish.
C9_BadGeocode ==
    GeocodeBad(env.geocode) =>
        /\ httpLog = << >>
        /\ httpClosed = 0
        /\ NoMqtt
        /\ pc \in { "settings", "exited" }
        /\ (Exited => exitCode # 0)

C9_Witness ==
    /\ Exited /\ exitCode = 1
    /\ env.geocode.set
    /\ Len(env.geocode.parts) = 2
    /\ env.geocode.parts[1].num /\ env.geocode.parts[2].num
    /\ env.geocode.parts[1].val > 90
    /\ env.geocode.parts[2].val <= 180

\* C10 as stated: every publish of publish_weather, for every publisher
\* configuration, carries the retain flag and a quality level of at least 1.
C10_AlwaysRetained ==
    \A i \in 1..Len(published) : published[i].retain /\ published[i].qos >= 1

\* C10 amended: every publish carries quality level 1; discovery documents and
\* the legacy cleanup always carry the retain flag, and every data topic carries
\* the configured mqtt_retain setting.
C10_RetainAsConfigured ==
    \A i \in 1..Len(published) :
        /\ published[i].qos = 1
        /\ IsDiscovery(published[i].topic) => published[i].retain
        /\ IsData(published[i].topic) => (published[i].retain = env.mqtt_retain)

C10_Witness ==
    /\ ~env.mqtt_retain
    /\ env.mqtt_ha_discovery
    /\ Exited /\ exitCode = 0
    /\ publishWeatherCalls = 1
    /\ weather.current.present

-----------------------------------------------------------------------------
(* The forecast decoder *)

ReturnedForecast == pc = "returned _parse_forecast"

\* the array of daypart[0] under key, empty when daypart or the key is missing
DaypartArray(data, key) ==
    IF "daypart" \in DOMAIN data /\ Len(data.daypart) > 0
    THEN GetList(data.daypart[1], key) ELSE << >>

\* the day/night-paired fields of DayForecast and the daypart array of each
PairedFields ==
    { [ src |-> "precipChance", day |-> "precip_chance_day", night |-> "precip_chance_night" ],
      [ src |-> "wxPhraseLong", day |-> "condition_day", night |-> "condition_night" ],
      [ src |-> "iconCode", day |-> "icon_code_day", night |-> "icon_code_night" ],
      [ src |-> "relativeHumidity", day |-> "humidity_day", night |-> "humidity_night" ],
      [ src |-> "windSpeed", day |-> "wind_speed_day", night |-> "wind_speed_night" ],
      [ src |-> "windDirectionCardinal", day |-> "wind_direction_day",
        night |-> "wind_direction_night" ] }

\* every paired daypart array holds exactly two entries per dayOfWeek entry
FullDayparts(data) ==
    \A p \in PairedFields :
        Len(DaypartArray(data, p.src)) = 2 * Len(GetList(data, "dayOfWeek"))

\* C11: when dayOfWeek has N entries and every paired daypart[0] array has
\* exactly 2N, _parse_forecast returns N records and record i holds, for each
\* paired field, the array's element 2i as the day value and its element 2i+1
\* as the night value (i counted from 0).
C11_DayNightPairs ==
    (ReturnedForecast /\ FullDayparts(arg)) =>
        /\ Len(result) = Len(GetList(arg, "dayOfWeek"))
        /\ \A i \in 0..(Len(result) - 1) : \A p \in PairedFields :
              /\ result[i + 1][p.day] = DaypartArray(arg, p.src)[2 * i + 1]
              /\ result[i + 1][p.night] = DaypartArray(arg, p.src)[2 * i + 2]

C11_Witness ==
    /\ ReturnedForecast /\ FullDayparts(arg)
    /\ Len(result) >= 2
    /\ result[2].icon_code_day = PyInt(Icons[3])
    /\ result[2].icon_code_night = PyInt(Icons[4])
    /\ result[1].icon_code_night # result[1].icon_code_day

\* C12 as stated: whenever a paired daypart array has fewer than the 2i+2
\* entries day i needs, both the day and the night value of record i are
\* absent.
C12_BothAbsentWhenShort ==
    ReturnedForecast =>
        \A i \in 0..(Len(result) - 1) : \A p \in PairedFields :
            Len(DaypartArray(arg, p.src)) < 2 * i + 2 =>
                /\ result[i + 1][p.day] = None
                /\ result[i + 1][p.night] = None

\* C12 amended: the day and the night value are looked up separately.  With at
\* most 2i entries both values of record i are absent; with exactly 2i+1
\* entries the day value is the array's last entry and only the night value is
\* absent.
C12_EachIndexChecked ==
    ReturnedForecast =>
        \A i \in 0..(Len(result) - 1) : \A p \in PairedFields :
            LET a == DaypartArray(arg, p.src)
            IN /\ Len(a) <= 2 * i =>
                     result[i + 1][p.day] = None /\ result[i + 1][p.night] = None
               /\ Len(a) = 2 * i + 1 =>
                     result[i + 1][p.day] = a[Len(a)] /\ result[i + 1][p.night] = None

C12_Witness ==
    /\ ReturnedForecast
    /\ Len(result) >= 2
    /\ Len(DaypartArray(arg, "iconCode")) = 3
    /\ result[2].icon_code_day = PyInt(Icons[3])
    /\ result[2].icon_code_night = None
    /\ Len(DaypartArray(arg, "windSpeed")) = 2
    /\ result[2].wind_speed_day = None

\* the DayForecast fields read from a top-level array at the day's own index
TopLevelFields ==
    { [ src |-> "calendarDayTemperatureMax", field |-> "temp_max" ],
      [ src |-> "calendarDayTemperatureMin", field |-> "temp_min" ],
      [ src |-> "narrative", field |-> "narrative" ],
      [ src |-> "qpf", field |-> "qpf" ] }

\* C13 as stated: _parse_forecast returns one record per dayOfWeek entry in
\* source order, and every field whose source array is missing or too short is
\* absent.
C13_ShortMeansAbsent ==
    ReturnedForecast =>
        /\ Len(result) = Len(GetList(arg, "dayOfWeek"))
        /\ \A i \in 0..(Len(result) - 1) :
              /\ result[i + 1].day_of_week = arg.dayOfWeek[i + 1]
              /\ i >= Len(GetList(arg, "validTimeLocal")) => result[i + 1].date = None
              /\ \A t \in TopLevelFields :
                    i >= Len(GetList(arg, t.src)) => result[i + 1][t.field] = None
              /\ \A p \in PairedFields :
                    /\ 2 * i >= Len(DaypartArray(arg, p.src)) => result[i + 1][p.day] = None
                    /\ 2 * i + 1 >= Len(DaypartArray(arg, p.src)) =>
                          result[i + 1][p.night] = None
              /\ 2 * i >= Len(DaypartArray(arg, "uvIndex")) => result[i + 1].uv_index_day = None

\* C13 amended: _parse_forecast returns one record per dayOfWeek entry in
\* source order; a field whose source array is long enough holds that array's
\* entry, and one whose source array is missing or too short is absent, except
\* date and narrative, which are then the empty string.
C13_SoftPerField ==
    ReturnedForecast =>
        /\ Len(result) = Len(GetList(arg, "dayOfWeek"))
        /\ \A i \in 0..(Len(result) - 1) :
              /\ result[i + 1].day_of_week = arg.dayOfWeek[i + 1]
              /\ result[i + 1].date =
                    IF i >= Len(GetList(arg, "validTimeLocal")) THEN PyText("")
                    ELSE PyText(Str(SubSeq(arg.validTimeLocal[i + 1], 1, 10)))
              /\ \A t \in TopLevelFields :
                    result[i + 1][t.field] =
                        IF i < Len(GetList(arg, t.src)) THEN arg[t.src][i + 1]
                        ELSE IF t.field = "narrative" THEN PyText("") ELSE None
              /\ \A p \in PairedFields :
                    LET a == DaypartArray(arg, p.src)
                    IN /\ result[i + 1][p.day] = IF 2 * i < Len(a) THEN a[2 * i + 1] ELSE None
                       /\ result[i + 1][p.night] =
                             IF 2 * i + 1 < Len(a) THEN a[2 * i + 2] ELSE None
              /\ LET u == DaypartArray(arg, "uvIndex")
                 IN result[i + 1].uv_index_day = IF 2 * i < Len(u) THEN u[2 * i + 1] ELSE None

\* no daypart key: two records, the top-level values kept, the daypart ones absent
C13_Witness ==
    /\ ReturnedForecast
    /\ "daypart" \notin DOMAIN arg
    /\ Len(result) = 2
    /\ Len(GetList(arg, "narrative")) = 1
    /\ result[1].temp_max = TempMaxAt(0)
    /\ result[1].narrative = NarrativeAt(0)
    /\ result[2].narrative = PyText("")
    /\ result[2].date = PyText("")
    /\ result[2].temp_min = None
    /\ result[1].icon_code_day = None

-----------------------------------------------------------------------------
(* The hourly decoder *)

ReturnedHourly == pc = "returned _parse_hourly"

\* the positions (from 1) of the timestamps whose date is the first one's
SameDate(valid_times) ==
    { i \in 1..Len(valid_times) :
        SubSeq(valid_times[i], 1, 10) = SubSeq(valid_times[1], 1, 10) }

\* the j-th smallest member of the set of positions S
Nth(S, j) == CHOOSE i \in S : Cardinality({ k \in S : k < i }) = j - 1

\* the HourForecast fields read from an array at the entry's own index
HourFields ==
    { [ src |-> "temperature", field |-> "temperature" ],
      [ src |-> "wxPhraseLong", field |-> "condition" ],
      [ src |-> "iconCode", field |-> "icon_code" ],
      [ src |-> "qpf", field |-> "qpf" ] }

\* C14: _parse_hourly returns exactly the validTimeLocal entries whose first
\* 10 characters equal those of the first entry, in source order and without
\* dropping repeats or entries that follow another date; each kept entry's hour
\* is the number written by characters 11-12 (counted from 0) of its timestamp
\* and its other fields come from the entry's own source index; an empty
\* validTimeLocal gives the empty sequence.
C14_TodayOnly ==
    ReturnedHourly =>
        LET valid_times == GetList(arg, "validTimeLocal")
            today == SameDate(valid_times)
        IN /\ ~result.raised
           /\ Len(result.hours) = Cardinality(today)
           /\ \A j \in 1..Len(result.hours) :
                LET i == Nth(today, j)
                    h == result.hours[j]
                IN /\ h.time_local = valid_times[i]
                   /\ h.hour = 10 * DigitVal(valid_times[i][12]) + DigitVal(valid_times[i][13])
                   /\ \A f \in HourFields :
                        h[f.field] = IF i <= Len(GetList(arg, f.src))
                                     THEN arg[f.src][i] ELSE None

\* today 07:00, tomorrow 00:00, today 14:00: the first and the third are kept
C14_Witness ==
    /\ ReturnedHourly
    /\ GetList(arg, "validTimeLocal") = << TS(3, 7), TS(4, 0), TS(3, 14) >>
    /\ Len(GetList(arg, "temperature")) = 3
    /\ Len(result.hours) = 2
    /\ result.hours[1].hour = 7
    /\ result.hours[2].hour = 14
    /\ result.hours[2].time_local = TS(3, 14)
    /\ result.hours[2].temperature = HourTempAt(2)

-----------------------------------------------------------------------------
(* The condition mapper *)

ReturnedCondition == pc = "returned _wu_to_ha_condition"

\* the condition strings of _WU_TO_HA_CONDITION, and the default
ConditionStrings ==
    { "tornado", "hurricane", "lightning-rainy", "rainy", "snowy", "hail", "fog",
      "windy", "cloudy", "partlycloudy", "clear-night", "sunny", "pouring",
      "exceptional" }

\* C15: for an icon code from 0 to 47 the mapper returns the table's string for
\* that code; for any other input (negative, above 47, absent) it returns
\* "exceptional"; the result is always one of the table's strings or
\* "exceptional".
C15_MapperTotal ==
    ReturnedCondition =>
        /\ result \in ConditionStrings
        /\ (arg # None /\ arg.n \in 0..47) => result = _WU_TO_HA_CONDITION[arg.n + 1]
        /\ (arg = None \/ arg.n \notin 0..47) => result = "exceptional"
        /\ arg = PyInt(0) => result = "tornado"
        /\ arg \in { PyInt(1), PyInt(2) } => result = "hurricane"
        /\ arg = PyInt(11) => result = "rainy"
        /\ arg = PyInt(32) => result = "sunny"
        /\ arg = PyInt(47) => result = "lightning-rainy"

\* the first code above the table
C15_Witness ==
    /\ ReturnedCondition
    /\ arg = PyInt(Len(_WU_TO_HA_CONDITION))
    /\ result = "exceptional"

-----------------------------------------------------------------------------
(* The aggregate state *)

StateTopic == << mqtt_topic_prefix, "ha_state" >>

\* the top-level fields _build_ha_state sets from the current conditions
StateScalars ==
    { "temperature", "humidity", "wind_speed", "wind_bearing", "pressure", "visibility",
      "condition" }

\* the table's string for a code it holds, "exceptional" for anything else
TableString(code) ==
    IF code # None /\ code.n \in 0..47 THEN _WU_TO_HA_CONDITION[code.n + 1] ELSE "exceptional"

\* the message published last is the aggregate state
StateJustPublished ==
    /\ Len(published) > 0
    /\ published[Len(published)].topic = StateTopic

\* C16: the aggregate-state payload holds a forecast list with one entry per
\* DayForecast of the snapshot, in the same order, whose temperature is temp_max,
\* whose templow is temp_min and whose condition is the mapper's result for
\* icon_code_day; the seven top-level scalar fields are all there when current
\* conditions are present and none is there otherwise; every condition in the
\* payload is one of the mapper's strings.  (Messages are only ever appended to
\* published, so each is the last one in the state that follows its publish.)
C16_AggregateState ==
    StateJustPublished =>
        LET st == published[Len(published)].payload.val
        IN /\ published[Len(published)].payload.fmt = "json"
           /\ "forecast" \in DOMAIN st
           /\ Len(st.forecast) = Len(weather.forecast)
           /\ \A d \in 1..Len(st.forecast) :
                /\ st.forecast[d].temperature = weather.forecast[d].temp_max
                /\ st.forecast[d].templow = weather.forecast[d].temp_min
                /\ st.forecast[d].condition = TableString(weather.forecast[d].icon_code_day)
                /\ st.forecast[d].condition \in ConditionStrings
           /\ weather.current.present =>
                /\ StateScalars \subseteq DOMAIN st
                /\ st.condition = TableString(weather.current.icon_code)
                /\ st.condition \in ConditionStrings
                /\ st.temperature = weather.current.temperature
           /\ ~weather.current.present => DOMAIN st = { "forecast" }

\* current conditions present and two forecast days with different icons
C16_Witness ==
    /\ StateJustPublished
    /\ weather.current.present
    /\ Len(weather.forecast) >= 2
    /\ weather.forecast[1].temp_max # weather.forecast[2].temp_max
    /\ weather.forecast[1].icon_code_day # weather.forecast[1].icon_code_night
    /\ published[Len(published)].payload.val.forecast[2].condition = "sunny"

-----------------------------------------------------------------------------
(* The data topics *)

LastPub == published[Len(published)]

\* the CurrentConditions field behind each per-metric topic; the condition
\* topic carries the mapper's result, which is never None
MetricField(key) == IF key = "wind_direction" THEN "wind_direction_cardinal" ELSE key

IsMetric(topic) == IsData(topic) /\ Len(topic) = 2 /\ topic[2] \in SensorKeys
IsHourly(topic) == IsData(topic) /\ Len(topic) = 4 /\ topic[2] = "hourly"
IsHourlyPub(m) == IsHourly(m.topic)

\* C18 as stated: a per-metric topic is published only when current conditions
\* are present and that metric's value is present, and no scalar topic, of the
\* current conditions or of an hour, carries the text of an absent value.
C18_NoAbsentScalar ==
    Len(published) > 0 =>
        /\ IsMetric(LastPub.topic) =>
             /\ weather.current.present
             /\ LastPub.topic[2] # "condition" =>
                  weather.current[MetricField(LastPub.topic[2])] # None
        /\ LastPub.payload.fmt = "raw" => LastPub.payload.text # "None"

\* the place of a data topic in publish_weather's data part
Rank(topic) ==
    CASE IsMetric(topic) -> 1
      [] topic = << mqtt_topic_prefix, "current" >> -> 2
      [] topic = << mqtt_topic_prefix, "forecast" >> -> 3
      [] IsHourly(topic) -> 4
      [] topic = StateTopic -> 5

\* two characters of the timestamp: its hour as the source wrote it
HH(time_local) == time_local[12] \o time_local[13]

\* C19: the data topics are published in the order per-metric topics,
\* {prefix}/current, {prefix}/forecast, the hourly topics hour by hour in
\* hourly_today's order, {prefix}/ha_state; nothing is published after
\* {prefix}/ha_state, so once it is published every other topic of the run is.
C19_DataOrder ==
    /\ Len(published) >= 2 =>
         LET prev == published[Len(published) - 1]
         IN /\ prev.topic # StateTopic
            /\ IsData(prev.topic) =>
                 IsData(LastPub.topic) /\ Rank(prev.topic) <= Rank(LastPub.topic)
    /\ (Len(published) >= 1 /\ IsHourly(LastPub.topic)) =>
         LET k == Len(SelectSeq(published, IsHourlyPub))
         IN /\ k <= 3 * Len(weather.hourly_today)
            /\ LastPub.topic[3] = HH(weather.hourly_today[((k - 1) \div 3) + 1].time_local)
    /\ StateJustPublished =>
         /\ << mqtt_topic_prefix, "forecast" >> \in Topics
         /\ << mqtt_topic_prefix, "current" >> \in Topics <=> weather.current.present
         /\ weather.current.present => << mqtt_topic_prefix, "condition" >> \in Topics
         /\ Len(SelectSeq(published, IsHourlyPub)) = 3 * Len(weather.hourly_today)

\* current conditions and two hours of different times, everything published
C19_Witness ==
    /\ StateJustPublished
    /\ weather.current.present
    /\ Len(weather.hourly_today) >= 2
    /\ weather.hourly_today[1].hour < weather.hourly_today[2].hour
    /\ pc = "disconnect" /\ ~failed

\* C20: for every entry of hourly_today, in order, publish_weather publishes
\* the three topics {prefix}/hourly/HH/temperature, /condition and
\* /precipitation and no other hourly topic, HH being the entry's hour in two
\* digits; the condition payload is the mapper's string for the entry's icon
\* code and the precipitation payload is 0.0 when the entry's qpf is absent.
C20_HourlyTopics ==
    StateJustPublished =>
        LET hs == SelectSeq(published, IsHourlyPub)
        IN /\ Len(hs) = 3 * Len(weather.hourly_today)
           /\ \A h \in 1..Len(weather.hourly_today) :
                LET hour == weather.hourly_today[h]
                    at == << mqtt_topic_prefix, "hourly", HH(hour.time_local) >>
                IN /\ Len(at[3]) = 2
                   /\ hs[3 * h - 2].topic = Append(at, "temperature")
                   /\ hs[3 * h - 1].topic = Append(at, "condition")
                   /\ hs[3 * h].topic = Append(at, "precipitation")
                   /\ hs[3 * h - 1].payload = RawMsg(TableString(hour.icon_code))
                   /\ hour.qpf = None => hs[3 * h].payload = RawMsg("0.0")
                   /\ hour.qpf # None => hs[3 * h].payload = RawMsg(PyStr(hour.qpf))

\* 07:00 and 14:00, the second without a precipitation figure
C20_Witness ==
    /\ StateJustPublished
    /\ Len(weather.hourly_today) >= 2
    /\ weather.hourly_today[1].hour = 7
    /\ weather.hourly_today[2].hour = 14
    /\ weather.hourly_today[2].qpf = None
    /\ << mqtt_topic_prefix, "hourly", "07", "precipitation" >> \in Topics

-----------------------------------------------------------------------------
(* Republishing *)

-----------------------------------------------------------------------------
(* Discovery *)

\* the keys of the nine fixed sensors, in the order of the source's list
FixedKeys ==
    << "temperature", "feels_like", "humidity", "wind_speed", "wind_direction",
       "pressure", "visibility", "uv_index", "condition" >>

HourlyKinds == << "temperature", "condition", "precipitation" >>

\* the legacy cleanup is the message published last
CleanupJustPublished ==
    /\ Len(published) > 0
    /\ LastPub.topic = old_topic

\* C21: with discovery enabled, when the legacy cleanup is published exactly
\* 9 + 3H sensor documents have been published before it and nothing else: the
\* nine fixed ones whether or not current conditions are present, then three
\* per entry of hourly_today, each retained, on
\* {discovery_prefix}/sensor/wu_mqtt_bridge/{key}/config and with the same
\* device object; the cleanup is one empty retained payload on
\* {discovery_prefix}/weather/wu_mqtt_bridge/config.
C21_DiscoveryDocuments ==
    /\ CleanupJustPublished =>
         LET H == Len(weather.hourly_today)
             n == Len(published) - 1
         IN /\ env.mqtt_ha_discovery
            /\ n = 9 + 3 * H
            /\ LastPub.payload = RawMsg("") /\ LastPub.retain
            /\ LastPub.topic =
                 << mqtt_ha_discovery_prefix, "weather", "wu_mqtt_bridge", "config" >>
            /\ \A i \in 1..n :
                 LET m == published[i]
                     key == IF i <= 9 THEN FixedKeys[i]
                            ELSE "hourly_"
                                 \o HH(weather.hourly_today[((i - 10) \div 3) + 1].time_local)
                                 \o "_" \o HourlyKinds[((i - 10) % 3) + 1]
                 IN /\ m.topic = << mqtt_ha_discovery_prefix, "sensor", "wu_mqtt_bridge",
                                    key, "config" >>
                    /\ m.retain
                    /\ m.payload.fmt = "json"
                    /\ m.payload.val.device = published[1].payload.val.device
                    /\ m.payload.val.device.identifiers = << "wu_mqtt_bridge" >>
    /\ (env.mqtt_ha_discovery /\ Len(published) > 0 /\ IsData(LastPub.topic)) =>
         /\ published[10 + 3 * Len(weather.hourly_today)].topic = old_topic
         /\ ~IsDiscovery(published[Len(published) - 1].topic)
              \/ published[Len(published) - 1].topic = old_topic

\* no current conditions and two hours: 9 + 6 documents, then the cleanup
C21_Witness ==
    /\ CleanupJustPublished
    /\ weather.has /\ ~weather.current.present
    /\ Len(weather.hourly_today) = 2
    /\ Len(published) = 16
    /\ published[1].topic = DiscoveryTopic("temperature")
    /\ published[15].topic = DiscoveryTopic("hourly_14_precipitation")

-----------------------------------------------------------------------------
(* The snapshot *)

\* the field names of the typed CurrentConditions record
TypedFields ==
    { "temperature", "feels_like", "humidity", "wind_speed", "wind_direction_cardinal",
      "uv_index", "condition", "icon_code", "pressure", "visibility" }

\* the keys of an object, the model's own presence mark left out
KeysOf(obj) == DOMAIN obj \ { "present" }

\* C22 as stated: in every snapshot fetch_all returns, the raw current object
\* is present exactly when current conditions are, and its keys are the field
\* names of CurrentConditions, each with the typed field's value.
C22_RawMirrorsTyped ==
    weather.has =>
        /\ weather.raw_current.present <=> weather.current.present
        /\ weather.current.present =>
             /\ KeysOf(weather.current) = TypedFields
             /\ KeysOf(weather.raw_current) = TypedFields
             /\ \A k \in TypedFields : weather.raw_current[k] = weather.current[k]

\* C22 amended: the raw current object is present exactly when current
\* conditions are; it has one key per field of CurrentConditions, named as the
\* field except that wind_direction_cardinal is stored under wind_direction,
\* and each key holds the typed field's value.
C22_RawRenamesWind ==
    weather.has =>
        /\ weather.raw_current.present <=> weather.current.present
        /\ weather.current.present =>
             /\ KeysOf(weather.current) = TypedFields
             /\ KeysOf(weather.raw_current) =
                  (TypedFields \ { "wind_direction_cardinal" }) \cup { "wind_direction" }
             /\ \A k \in TypedFields :
                  weather.raw_current[IF k = "wind_direction_cardinal"
                                      THEN "wind_direction" ELSE k] = weather.current[k]

\* a full current observation: wind 15.0 from SSW
C22_Witness ==
    /\ weather.has
    /\ weather.current.present
    /\ weather.current.wind_direction_cardinal = PyText("SSW")
    /\ weather.raw_current.wind_direction = PyText("SSW")
    /\ weather.raw_current.wind_speed = PyFloat(150)
    /\ weather.raw_current.icon_code = PyInt(30)

-----------------------------------------------------------------------------
(* Order of the fetches *)

-----------------------------------------------------------------------------
(* Release of the HTTP client and of the publisher *)

\* C24: the HTTP client is closed exactly once on every path that created it,
\* whether fetch_all returned or failed, and before any publisher exists; once
\* a publisher has been created disconnect is called exactly once, as the last
\* call of the run, after connect and whatever publish_weather did, also when
\* connect itself failed; a successful run that is not a dry run has called
\* connect, publish_weather and disconnect once each, in that order.  (The
\* counters only grow, so "connect has been called whenever publish_weather
\* has" and "the run is over whenever disconnect has been called" give the order.)
C24_ResourcesReleased ==
    /\ httpClosed <= 1 /\ connectCalls <= 1
    /\ publishWeatherCalls <= 1 /\ disconnectCalls <= 1
    /\ httpClosed = 1 => Len(httpLog) >= 1
    /\ Exited => (httpClosed = 1 <=> SettingsValid(env))
    /\ publisherCreated => httpClosed = 1 /\ weather.has /\ ~env.dry_run
    /\ connectCalls = 1 => publisherCreated
    /\ publishWeatherCalls = 1 => connectCalls = 1 /\ connectOk
    /\ disconnectCalls = 1 => Exited /\ connectCalls = 1
    /\ Exited => (disconnectCalls = 1 <=> publisherCreated)
    /\ (Exited /\ exitCode = 0 /\ ~env.dry_run) =>
         /\ httpClosed = 1
         /\ connectCalls = 1 /\ publishWeatherCalls = 1 /\ disconnectCalls = 1

\* connect failed: publish_weather was never called, disconnect was, once
C24_Witness ==
    /\ Exited /\ exitCode = 1
    /\ publisherCreated
    /\ connectCalls = 1 /\ ~connectOk
    /\ publishWeatherCalls = 0
    /\ disconnectCalls = 1
    /\ httpClosed = 1

====
